---- MODULE Spec2Model ----
(***************************************************************************)
(* Model of src/function_app.py: the timer-triggered scraper               *)
(* (scraper_trigger), the AzureScraper class it drives, and the            *)
(* retry_on_exception decorator.                                           *)
(*                                                                         *)
(* Spec      : invocations of scraper_trigger by the processes of Procs,   *)
(*             sharing one storage account and one wall clock.             *)
(* RetrySpec : retry_on_exception(retries) wrapped around an operation     *)
(*             that raises on its first k calls and then returns.          *)
(***************************************************************************)
EXTENDS Integers, Sequences, FiniteSets, TLC

\* ------------------------------------------------------------------ bounds

\* The wall clock runs over the seconds 0..MaxClock.
MaxClock == 1

\* RetrySpec wraps operations with retries in 0..MaxRetries ...
MaxRetries == 4

\* ... that raise on their first k calls, k in 0..MaxFailures.
MaxFailures == 4

\* CaptureSpec runs get_current_values up to MaxAttempts times on one
\* browser session.
MaxAttempts == 2

\* ------------------------------------------------------- program constants

\* @retry_on_exception(retries=3, delay=2) on get_current_values
GcvRetries == 3

\* Overlapping invocations of the timer trigger.
Procs == {1, 2}

\* Python values are tuples: None is the empty one, a number or a string
\* v is <<v>>, an exception is <<its class, ...>>.
None == <<>>
Some(v) == <<v>>

\* self.url, and the URL a freshly launched browser shows
TargetUrl == "https://play.pakakumi.com/"
BlankUrl == "data:,"

\* ------------------------------------------------------------ page texts

Digits == {"0", "1", "2", "3", "4", "5", "6", "7", "8", "9"}

DigitValue ==
    ("0" :> 0) @@ ("1" :> 1) @@ ("2" :> 2) @@ ("3" :> 3) @@ ("4" :> 4) @@
    ("5" :> 5) @@ ("6" :> 6) @@ ("7" :> 7) @@ ("8" :> 8) @@ ("9" :> 9)

\* What wait.until(...) yields for a locator: the element's text (a
\* sequence of characters), or a TimeoutException after 20 s.
Timeout == <<"TimeoutException">>

\* Texts of a.css-19toqs6:  "3.42x", "x"
MultiplierTexts == { <<"3", ".", "4", "2", "x">>, <<"x">> }

\* Further texts of a.css-19toqs6 for CaptureSpec:
\* "12.5x", "  7x ", "1x5", "x7"
MoreMultiplierTexts ==
    { <<"1", "2", ".", "5", "x">>,
      <<" ", " ", "7", "x", " ">>,
      <<"1", "x", "5">>,
      <<"x", "7">> }

\* Texts of the strong after "Playing":  "18", "1.5"
PlayingTexts == { <<"1", "8">>, <<"1", ".", "5">> }

\* Texts of the strong after "Online":  " 203 ", ""
OnlineTexts == { <<" ", "2", "0", "3", " ">>, <<>> }

\* ------------------------------------------------------------ str methods

RECURSIVE LStrip(_)
LStrip(s) == IF s # <<>> /\ Head(s) = " " THEN LStrip(Tail(s)) ELSE s

RECURSIVE RStrip(_)
RStrip(s) ==
    IF s # <<>> /\ s[Len(s)] = " " THEN RStrip(SubSeq(s, 1, Len(s) - 1)) ELSE s

\* str.strip()
Strip(s) == RStrip(LStrip(s))

\* str.replace('x', ''): every occurrence of 'x' is removed
ReplaceX(s) == SelectSeq(s, LAMBDA c : c # "x")

AllDigits(s) == \A n \in 1..Len(s) : s[n] \in Digits

RECURSIVE DigitsValue(_)
DigitsValue(s) ==
    IF s = <<>> THEN 0
    ELSE 10 * DigitsValue(SubSeq(s, 1, Len(s) - 1)) + DigitValue[s[Len(s)]]

ValueError == <<"ValueError">>

\* What a conversion does: it yields a number or raises ValueError.
Parsed(n) == [ok |-> TRUE, val |-> n]
Unparsed == [ok |-> FALSE]

\* int(s) on a string over digits, '.', 'x' and blanks
ParseInt(s) ==
    LET t == Strip(s)
    IN  IF t # <<>> /\ AllDigits(t) THEN Parsed(DigitsValue(t)) ELSE Unparsed

\* float(s) on a string over digits, '.', 'x' and blanks with at most two
\* fractional digits; the value is given in hundredths (3.42 is 342).
ParseFloat(s) ==
    LET t == Strip(s)
        dots == {n \in 1..Len(t) : t[n] = "."}
    IN  IF dots = {}
        THEN IF t # <<>> /\ AllDigits(t) THEN Parsed(100 * DigitsValue(t)) ELSE Unparsed
        ELSE IF Cardinality(dots) > 1 THEN Unparsed
        ELSE LET d == CHOOSE n \in dots : TRUE
                 ip == SubSeq(t, 1, d - 1)
                 fp == SubSeq(t, d + 1, Len(t))
             IN  IF Len(ip) + Len(fp) = 0 \/ ~AllDigits(ip) \/ ~AllDigits(fp)
                    \/ Len(fp) > 2
                 THEN Unparsed
                 ELSE Parsed(100 * DigitsValue(ip)
                        + (IF Len(fp) = 1 THEN 10 ELSE 1) * DigitsValue(fp))

\* ------------------------------------------------------ retry_on_exception

Return(v) == [kind |-> "return", val |-> v]
Raise(e) == [kind |-> "raise", exc |-> e]

\* for i in range(retries): is there an iteration i?
range_has(i, retries) == i < retries

\* wrapper_iter without the retry: the first exception is raised.
wrapper_iter_no_retry(i, retries, res) ==
    IF res.kind = "return" THEN [act |-> "return", val |-> res.val]
    ELSE [act |-> "raise", exc |-> res.exc]

\* wrapper_iter without the raise on the last attempt: the loop runs out.
wrapper_iter_swallow(i, retries, res) ==
    IF res.kind = "return" THEN [act |-> "return", val |-> res.val]
    ELSE [act |-> "sleep", i |-> i + 1]

\* One iteration of wrapper's loop, given what func(*args, **kwargs) did
\* (res): return its value, re-raise on the last attempt, or log, sleep
\* and go on with the next i.
wrapper_iter(i, retries, res) ==
    IF res.kind = "return" THEN [act |-> "return", val |-> res.val]
    ELSE IF i = retries - 1 THEN [act |-> "raise", exc |-> res.exc]
    ELSE [act |-> "sleep", i |-> i + 1]

\* The wrapped operation of RetrySpec: its n-th call raises while
\* n <= fails, and returns afterwards.
flaky(n, fails) ==
    IF n <= fails THEN Raise(<<"Error", n>>) ELSE Return(<<"value", n>>)

\* ------------------------------------------------------ get_current_values

Nones == <<None, None, None, None>>

\* needs_nav without the test: every attempt navigates.
needs_nav_always(url) == TRUE

\* if self.driver.current_url != self.url: (line 104)
needs_nav(url) == url # TargetUrl

\* The try block of get_current_values (lines 104-135). navOk: driver.get
\* succeeds; mt, pt, ot: what the three waits yield; now: datetime.now().
gcv_try(url, navOk, mt, pt, ot, now) ==
    LET nav == needs_nav(url)
        \* float(multiplier_element.text.replace('x', '').strip())
        multiplier == ParseFloat(Strip(ReplaceX(mt)))
        playing == ParseInt(Strip(pt))
        online == ParseInt(Strip(ot))
    IN  IF nav /\ ~navOk
        THEN [res |-> Raise(<<"WebDriverException">>), url |-> url, nav |-> nav]
        ELSE LET u == IF nav THEN TargetUrl ELSE url
             IN  IF mt = Timeout
                 THEN [res |-> Raise(<<"TimeoutException">>), url |-> u, nav |-> nav]
                 ELSE IF ~multiplier.ok
                 THEN [res |-> Raise(ValueError), url |-> u, nav |-> nav]
                 ELSE IF pt = Timeout
                 THEN [res |-> Raise(<<"TimeoutException">>), url |-> u, nav |-> nav]
                 ELSE IF ~playing.ok
                 THEN [res |-> Raise(ValueError), url |-> u, nav |-> nav]
                 ELSE IF ot = Timeout
                 THEN [res |-> Raise(<<"TimeoutException">>), url |-> u, nav |-> nav]
                 ELSE IF ~online.ok
                 THEN [res |-> Raise(ValueError), url |-> u, nav |-> nav]
                 ELSE [res |-> Return(<<Some(multiplier.val), Some(online.val),
                                     Some(playing.val), Some(now)>>),
                       url |-> u, nav |-> nav]

\* gcv_except returning defaults in place of None.
gcv_except_defaults(res) ==
    IF res.kind = "raise"
    THEN Return(<<Some(0), Some(0), Some(0), Some(0)>>)
    ELSE res

\* except Exception as e: ... return None, None, None, None (lines 136-138)
gcv_except(res) == IF res.kind = "raise" THEN Return(Nones) ELSE res

\* The undecorated get_current_values.
get_current_values(url, navOk, mt, pt, ot, now) ==
    LET t == gcv_try(url, navOk, mt, pt, ot, now)
    IN  [res |-> gcv_except(t.res), url |-> t.url, nav |-> t.nav,
         \* time.sleep(5) (line 107) is reached when driver.get returned
         settled |-> t.nav /\ t.url = TargetUrl,
         failed |-> t.res.kind = "raise"]

\* --------------------------------------------------------- scraper_trigger

\* all(v is not None for v in [multiplier, online, playing, timestamp])
all_not_none(v) == \A n \in 1..4 : v[n] # None

\* timestamp.isoformat()
isoformat(t) == <<"iso", t[1]>>

\* make_data with online and playing taken from each other's place.
make_data_swapped(v) ==
    [timestamp |-> isoformat(v[4]), multiplier |-> v[1][1],
     online |-> v[3][1], playing |-> v[2][1]]

\* data = {'timestamp': ..., 'multiplier': ..., 'online': ..., 'playing': ...}
make_data(v) ==
    [timestamp |-> isoformat(v[4]), multiplier |-> v[1][1],
     online |-> v[2][1], playing |-> v[3][1]]

\* pd.DataFrame([data]).to_csv(index=False): the header row and one data
\* row, the columns in the dict's insertion order.
to_csv(d) ==
    << <<"timestamp", "multiplier", "online", "playing">>,
       <<d.timestamp, d.multiplier, d.online, d.playing>> >>

\* f"multiplier_data_{datetime.now().strftime('%Y%m%d_%H%M%S')}.csv"
blob_name(now) == <<"multiplier_data_", now, ".csv">>

BlobNames == {blob_name(t) : t \in 0..MaxClock}

NoBlob == <<>>

\* upload_blob answering an existing name with success and no write.
upload_blob_skip_existing(store, name, content, ok) ==
    IF store[name] # NoBlob
    THEN [res |-> Return(None), store |-> store]
    ELSE IF ~ok
    THEN [res |-> Raise(<<"HttpResponseError">>), store |-> store]
    ELSE [res |-> Return(None), store |-> [store EXCEPT ![name] = content]]

\* upload_blob with overwrite=True.
upload_blob_overwrite(store, name, content, ok) ==
    IF ~ok
    THEN [res |-> Raise(<<"HttpResponseError">>), store |-> store]
    ELSE [res |-> Return(None), store |-> [store EXCEPT ![name] = content]]

\* blob_client.upload_blob(csv_string): overwrite defaults to False, so an
\* existing blob of that name makes the call raise ResourceExistsError and
\* leaves it as it is. ok: the service accepts the request.
upload_blob(store, name, content, ok) ==
    IF store[name] # NoBlob
    THEN [res |-> Raise(<<"ResourceExistsError">>), store |-> store]
    ELSE IF ~ok
    THEN [res |-> Raise(<<"HttpResponseError">>), store |-> store]
    ELSE [res |-> Return(None), store |-> [store EXCEPT ![name] = content]]

\* conn_missing without the test.
conn_missing_unchecked(c) == FALSE

\* if not connect_str: raise ValueError(...) (lines 54-55)
conn_missing(c) == ~c

\* catches for except ValueError.
catches_value_error(e) == e = ValueError

\* except Exception as e: (line 205) catches every exception a call raises
catches(e) == TRUE

\* if_scraper with the cleanup left out, and with the test left out.
if_scraper_never(sc) == FALSE
if_scraper_always(sc) == TRUE

\* if scraper: (line 209)
if_scraper(sc) == sc

\* cleanup_except raising the error again.
cleanup_except_reraise(quitOk) ==
    [log |-> IF quitOk THEN <<"Chrome driver cleaned up">>
             ELSE <<"Error during cleanup">>,
     propagate |-> ~quitOk]

\* cleanup's except Exception as e: the error is logged and not re-raised
\* (lines 166-167). quitOk: driver.quit() returns.
cleanup_except(quitOk) ==
    [log |-> IF quitOk THEN <<"Chrome driver cleaned up">>
             ELSE <<"Error during cleanup">>,
     propagate |-> FALSE]

\* ------------------------------------------------------------------ state

VARIABLES
    connStr,     \* os.getenv('AzureWebJobsStorage') is set
    container,   \* the container "scraper-data" exists
    blobs,       \* the container's blobs: name -> content, or NoBlob
    clock,       \* datetime.now(), in seconds
    pc,          \* where each invocation is
    scraper,     \* the local scraper of scraper_trigger is not None
    driver,      \* the browser session: "none", "open", "quit", "quit failed"
    url,         \* driver.current_url
    i,           \* the loop variable of wrapper
    vals,        \* multiplier, online, playing, timestamp (line 188)
    exc,         \* the exception on its way to scraper_trigger's except
    status,      \* what the invocation logged about its outcome
    cleanupLog,  \* what cleanup logged
    count,       \* per invocation: how often each operation was called
    storageUsed, \* per invocation: a request went to the storage service
    wr,          \* RetrySpec: the state of one wrapped call
    cap          \* CaptureSpec: get_current_values on one browser session

vars == <<connStr, container, blobs, clock, pc, scraper, driver, url, i,
          vals, exc, status, cleanupLog, count, storageUsed, wr, cap>>

shared == <<connStr, container, blobs, clock>>

ZeroCount ==
    [launches |-> 0, driverErrors |-> 0, opens |-> 0, attempts |-> 0,
     failures |-> 0, navs |-> 0, stores |-> 0, writes |-> 0, closes |-> 0,
     checks |-> 0, checksOfExisting |-> 0, creates |-> 0]

\* A wrapped call: the decorator's retries and delay, the operation's
\* number of failing calls, the loop variable i, the calls and sleeps so
\* far, the seconds slept, the last thing done and the outcome.
WrIdle ==
    [pc |-> "idle", retries |-> 0, delay |-> 0, fails |-> 0, i |-> 0,
     calls |-> 0, sleeps |-> 0, slept |-> 0, last |-> "", out |-> None]

\* A browser session as setup_driver leaves it, the attempts made on it,
\* their navigations and settle delays, and the last attempt's texts and
\* result.
CapIdle ==
    [pc |-> "idle", url |-> BlankUrl, attempts |-> 0, navs |-> 0,
     settles |-> 0, mt |-> <<>>, pt |-> <<>>, ot |-> <<>>,
     failed |-> FALSE, res |-> Return(Nones)]

InitLocals ==
    /\ pc = [p \in Procs |-> "idle"]
    /\ scraper = [p \in Procs |-> FALSE]
    /\ driver = [p \in Procs |-> "none"]
    /\ url = [p \in Procs |-> ""]
    /\ i = [p \in Procs |-> 0]
    /\ vals = [p \in Procs |-> Nones]
    /\ exc = [p \in Procs |-> None]
    /\ status = [p \in Procs |-> None]
    /\ cleanupLog = [p \in Procs |-> None]
    /\ count = [p \in Procs |-> ZeroCount]
    /\ storageUsed = [p \in Procs |-> FALSE]

Init ==
    /\ connStr \in BOOLEAN
    /\ container \in BOOLEAN
    /\ blobs = [n \in BlobNames |-> NoBlob]
    /\ clock = 0
    /\ InitLocals
    /\ wr = WrIdle
    /\ cap = CapIdle

Add(c, f) == [c EXCEPT ![f] = @ + 1]

\* The timer fires: lines 173-181.
Start(p) ==
    /\ pc[p] \in {"idle", "done"}
    /\ pc' = [pc EXCEPT ![p] = "init"]
    /\ scraper' = [scraper EXCEPT ![p] = FALSE]
    /\ driver' = [driver EXCEPT ![p] = "none"]
    /\ url' = [url EXCEPT ![p] = ""]
    /\ i' = [i EXCEPT ![p] = 0]
    /\ vals' = [vals EXCEPT ![p] = Nones]
    /\ exc' = [exc EXCEPT ![p] = None]
    /\ status' = [status EXCEPT ![p] = None]
    /\ cleanupLog' = [cleanupLog EXCEPT ![p] = None]
    /\ count' = [count EXCEPT ![p] = ZeroCount]
    /\ storageUsed' = [storageUsed EXCEPT ![p] = FALSE]
    /\ UNCHANGED <<shared, wr, cap>>

\* AzureScraper.__init__ up to the blob service client: lines 38-59.
SetupBlobStorage(p) ==
    /\ pc[p] = "init"
    /\ IF conn_missing(connStr)
       THEN /\ exc' = [exc EXCEPT ![p] = ValueError]
            /\ pc' = [pc EXCEPT ![p] = "except"]
       ELSE /\ pc' = [pc EXCEPT ![p] = "check_container"]
            /\ UNCHANGED exc
    /\ UNCHANGED <<shared, scraper, driver, url, i, vals, status, cleanupLog,
                   count, storageUsed, wr, cap>>

\* get_container_properties(): lines 61-66. Any exception, the container
\* missing or not, leads to create_container.
CheckContainer(p) ==
    /\ pc[p] = "check_container"
    /\ \E ok \in BOOLEAN :
          pc' = [pc EXCEPT ![p] = IF container /\ ok THEN "setup_driver"
                                  ELSE "create_container"]
    /\ storageUsed' = [storageUsed EXCEPT ![p] = TRUE]
    /\ count' = [count EXCEPT ![p] =
          IF container THEN Add(Add(@, "checks"), "checksOfExisting")
          ELSE Add(@, "checks")]
    /\ UNCHANGED <<shared, scraper, driver, url, i, vals, exc, status,
                   cleanupLog, wr, cap>>

\* create_container(): lines 67-70. It raises ResourceExistsError when the
\* container exists; every exception is logged and raised again.
CreateContainer(p) ==
    /\ pc[p] = "create_container"
    /\ storageUsed' = [storageUsed EXCEPT ![p] = TRUE]
    /\ \E ok \in BOOLEAN :
          IF container
          THEN /\ exc' = [exc EXCEPT ![p] = <<"ResourceExistsError">>]
               /\ pc' = [pc EXCEPT ![p] = "except"]
               /\ UNCHANGED container
          ELSE IF ok
          THEN /\ container' = TRUE
               /\ pc' = [pc EXCEPT ![p] = "setup_driver"]
               /\ UNCHANGED exc
          ELSE /\ exc' = [exc EXCEPT ![p] = <<"HttpResponseError">>]
               /\ pc' = [pc EXCEPT ![p] = "except"]
               /\ UNCHANGED container
    /\ count' = [count EXCEPT ![p] = Add(@, "creates")]
    /\ UNCHANGED <<connStr, blobs, clock, scraper, driver, url, i, vals,
                   status, cleanupLog, wr, cap>>

\* setup_driver, and the assignment to scraper when __init__ returns:
\* lines 72-98 and 184.
SetupDriver(p) ==
    /\ pc[p] = "setup_driver"
    /\ \E r \in {"ok", "install fails", "Chrome fails"} :
          /\ count' = [count EXCEPT ![p] =
                CASE r = "ok" -> Add(Add(@, "launches"), "opens")
                  [] r = "Chrome fails" -> Add(Add(@, "launches"), "driverErrors")
                  [] r = "install fails" -> Add(@, "driverErrors")]
          /\ IF r = "ok"
             THEN /\ driver' = [driver EXCEPT ![p] = "open"]
                  /\ url' = [url EXCEPT ![p] = BlankUrl]
                  /\ scraper' = [scraper EXCEPT ![p] = TRUE]
                  /\ pc' = [pc EXCEPT ![p] = "get_values"]
                  /\ UNCHANGED exc
             ELSE /\ exc' = [exc EXCEPT ![p] = <<"WebDriverException">>]
                  /\ pc' = [pc EXCEPT ![p] = "except"]
                  /\ UNCHANGED <<driver, url, scraper>>
    /\ UNCHANGED <<shared, i, vals, status, cleanupLog, storageUsed, wr, cap>>

\* scraper.get_current_values() and the test of what it returned: lines
\* 188-190 and 202-203. One iteration of the retry wrapper around one run
\* of get_current_values.
GetCurrentValues(p) ==
    /\ pc[p] = "get_values"
    /\ IF range_has(i[p], GcvRetries)
       THEN \E navOk \in BOOLEAN,
               mt \in MultiplierTexts \cup {Timeout},
               pt \in PlayingTexts \cup {Timeout},
               ot \in OnlineTexts \cup {Timeout} :
               LET g == get_current_values(url[p], navOk, mt, pt, ot, clock)
                   w == wrapper_iter(i[p], GcvRetries, g.res)
               IN  /\ url' = [url EXCEPT ![p] = g.url]
                   /\ count' = [count EXCEPT ![p] =
                         [@ EXCEPT !.attempts = @ + 1,
                                   !.navs = @ + (IF g.nav THEN 1 ELSE 0),
                                   !.failures = @ + (IF g.failed THEN 1 ELSE 0)]]
                   /\ CASE w.act = "return" /\ all_not_none(w.val) ->
                             /\ vals' = [vals EXCEPT ![p] = w.val]
                             /\ pc' = [pc EXCEPT ![p] = "save"]
                             /\ UNCHANGED <<i, exc, status>>
                        [] w.act = "return" /\ ~all_not_none(w.val) ->
                             /\ vals' = [vals EXCEPT ![p] = w.val]
                             /\ status' = [status EXCEPT ![p] =
                                              <<"Failed to get valid values">>]
                             /\ pc' = [pc EXCEPT ![p] = "finally"]
                             /\ UNCHANGED <<i, exc>>
                        [] w.act = "raise" ->
                             /\ exc' = [exc EXCEPT ![p] = w.exc]
                             /\ pc' = [pc EXCEPT ![p] = "except"]
                             /\ UNCHANGED <<i, vals, status>>
                        [] w.act = "sleep" ->
                             /\ i' = [i EXCEPT ![p] = w.i]
                             /\ UNCHANGED <<pc, vals, exc, status>>
       ELSE \* return None (line 31): unpacking None is a TypeError
            /\ exc' = [exc EXCEPT ![p] = <<"TypeError">>]
            /\ pc' = [pc EXCEPT ![p] = "except"]
            /\ UNCHANGED <<url, count, i, vals, status>>
    /\ UNCHANGED <<shared, scraper, driver, cleanupLog, storageUsed, wr, cap>>

\* data = {...}; scraper.save_to_blob(data): lines 191-201 and 140-159.
SaveToBlob(p) ==
    /\ pc[p] = "save"
    /\ \E ok \in BOOLEAN :
          LET u == upload_blob(blobs, blob_name(clock),
                               to_csv(make_data(vals[p])), ok)
          IN  /\ blobs' = u.store
              /\ storageUsed' = [storageUsed EXCEPT ![p] = TRUE]
              /\ IF u.res.kind = "return"
                 THEN /\ status' = [status EXCEPT ![p] = <<"Successfully saved">>]
                      /\ pc' = [pc EXCEPT ![p] = "finally"]
                      /\ count' = [count EXCEPT ![p] =
                            Add(Add(@, "stores"), "writes")]
                      /\ UNCHANGED exc
                 ELSE /\ exc' = [exc EXCEPT ![p] = u.res.exc]
                      /\ pc' = [pc EXCEPT ![p] = "except"]
                      /\ count' = [count EXCEPT ![p] = Add(@, "stores")]
                      /\ UNCHANGED status
    /\ UNCHANGED <<connStr, container, clock, scraper, driver, url, i, vals,
                   cleanupLog, wr, cap>>

\* except Exception as e: logging.error(...): lines 205-207. An exception
\* the clause does not catch stays on its way.
Except(p) ==
    /\ pc[p] = "except"
    /\ IF catches(exc[p])
       THEN /\ status' = [status EXCEPT ![p] =
                             <<"Error in scraper function", exc[p]>>]
            /\ exc' = [exc EXCEPT ![p] = None]
       ELSE UNCHANGED <<status, exc>>
    /\ pc' = [pc EXCEPT ![p] = "finally"]
    /\ UNCHANGED <<shared, scraper, driver, url, i, vals, cleanupLog, count,
                   storageUsed, wr, cap>>

\* finally: if scraper: scraper.cleanup(), then the COMPLETED log and the
\* return, with which the function's locals are gone: lines 208-213 and
\* 161-167. What the invocation logged and counted stays. An exception
\* still on its way, or one that cleanup lets through, leaves the function
\* before the COMPLETED log.
Finally(p) ==
    /\ pc[p] = "finally"
    /\ IF if_scraper(scraper[p])
       THEN \E quitOk \in BOOLEAN :
               LET c == cleanup_except(quitOk)
               IN  /\ driver' = [driver EXCEPT ![p] =
                                    IF quitOk THEN "quit" ELSE "quit failed"]
                   /\ cleanupLog' = [cleanupLog EXCEPT ![p] = c.log]
                   /\ count' = [count EXCEPT ![p] = Add(@, "closes")]
                   /\ pc' = [pc EXCEPT ![p] =
                                IF c.propagate \/ exc[p] # None
                                THEN "escaped" ELSE "done"]
       ELSE /\ pc' = [pc EXCEPT ![p] =
                         IF exc[p] # None THEN "escaped" ELSE "done"]
            /\ UNCHANGED <<driver, cleanupLog, count>>
    /\ url' = [url EXCEPT ![p] = ""]
    /\ i' = [i EXCEPT ![p] = 0]
    /\ vals' = [vals EXCEPT ![p] = Nones]
    /\ UNCHANGED <<shared, scraper, exc, status, storageUsed, wr, cap>>

\* A second passes.
Tick ==
    /\ clock < MaxClock
    /\ clock' = clock + 1
    /\ UNCHANGED <<connStr, container, blobs, pc, scraper, driver, url, i,
                   vals, exc, status, cleanupLog, count, storageUsed, wr, cap>>

Step(p) ==
    \/ Start(p)
    \/ SetupBlobStorage(p)
    \/ CheckContainer(p)
    \/ CreateContainer(p)
    \/ SetupDriver(p)
    \/ GetCurrentValues(p)
    \/ SaveToBlob(p)
    \/ Except(p)
    \/ Finally(p)

Next == (\E p \in Procs : Step(p)) \/ Tick

Spec == Init /\ [][Next]_vars

\* An invocation that has started goes on: the code is sequential, and each
\* call it waits for returns or raises within its timeout.
Run(p) ==
    \/ SetupBlobStorage(p)
    \/ CheckContainer(p)
    \/ CreateContainer(p)
    \/ SetupDriver(p)
    \/ GetCurrentValues(p)
    \/ SaveToBlob(p)
    \/ Except(p)
    \/ Finally(p)

FairSpec == Spec /\ \A p \in Procs : WF_vars(Run(p))

\* ------------------------------------------------ one wrapped call, alone

\* retry_on_exception(retries, delay): the decorator's parameters
Delays == {1, 2}

RetryInit ==
    /\ connStr = TRUE
    /\ container = FALSE
    /\ blobs = [n \in BlobNames |-> NoBlob]
    /\ clock = 0
    /\ InitLocals
    /\ \E r \in 0..MaxRetries, d \in Delays, k \in 0..MaxFailures :
          wr = [WrIdle EXCEPT !.pc = "loop", !.retries = r, !.delay = d,
                              !.fails = k]
    /\ cap = CapIdle

main == <<connStr, container, blobs, clock, pc, scraper, driver, url, i,
          vals, exc, status, cleanupLog, count, storageUsed>>

\* One iteration of for i in range(retries): lines 23-29, and line 31
\* when the loop has run out.
RetryCall ==
    /\ wr.pc = "loop"
    /\ IF range_has(wr.i, wr.retries)
       THEN LET w == wrapper_iter(wr.i, wr.retries, flaky(wr.calls + 1, wr.fails))
                c == [wr EXCEPT !.calls = @ + 1, !.last = "call"]
            IN  CASE w.act = "return" ->
                       wr' = [c EXCEPT !.pc = "returned", !.out = w.val]
                  [] w.act = "raise" ->
                       wr' = [c EXCEPT !.pc = "raised", !.out = w.exc]
                  [] w.act = "sleep" ->
                       wr' = [c EXCEPT !.pc = "sleep"]
       ELSE wr' = [wr EXCEPT !.pc = "returned", !.out = None]
    /\ UNCHANGED <<main, cap>>

\* time.sleep(delay), and the loop's next i: lines 30 and 23.
RetrySleep ==
    /\ wr.pc = "sleep"
    /\ wr' = [wr EXCEPT !.pc = "loop", !.i = @ + 1, !.sleeps = @ + 1,
                        !.slept = @ + wr.delay, !.last = "sleep"]
    /\ UNCHANGED <<main, cap>>

RetryNext == RetryCall \/ RetrySleep

RetrySpec == RetryInit /\ [][RetryNext]_vars

\* ------------------------------------- get_current_values on one session

CaptureInit ==
    /\ connStr = TRUE
    /\ container = FALSE
    /\ blobs = [n \in BlobNames |-> NoBlob]
    /\ clock = 0
    /\ InitLocals
    /\ wr = WrIdle
    /\ cap = [CapIdle EXCEPT !.pc = "ready"]

\* One run of get_current_values (lines 101-138) on the session.
CaptureAttempt ==
    /\ cap.pc = "ready"
    /\ cap.attempts < MaxAttempts
    /\ \E navOk \in BOOLEAN,
          mt \in MultiplierTexts \cup MoreMultiplierTexts \cup {Timeout},
          pt \in PlayingTexts \cup {Timeout},
          ot \in OnlineTexts \cup {Timeout} :
          LET g == get_current_values(cap.url, navOk, mt, pt, ot, clock)
          IN  cap' = [cap EXCEPT !.url = g.url,
                                 !.attempts = @ + 1,
                                 !.navs = @ + (IF g.nav THEN 1 ELSE 0),
                                 !.settles = @ + (IF g.settled THEN 1 ELSE 0),
                                 !.mt = mt, !.pt = pt, !.ot = ot,
                                 !.failed = g.failed,
                                 !.res = g.res]
    /\ UNCHANGED <<main, wr>>

\* The clock goes on between attempts.
CaptureTick ==
    /\ cap.pc = "ready"
    /\ clock < MaxClock
    /\ clock' = clock + 1
    /\ UNCHANGED <<connStr, container, blobs, pc, scraper, driver, url, i,
                   vals, exc, status, cleanupLog, count, storageUsed, wr, cap>>

CaptureNext == CaptureAttempt \/ CaptureTick

CaptureSpec == CaptureInit /\ [][CaptureNext]_vars

\* ----------------------------------------------------------------- claims

Saved == <<"Successfully saved">>
NoValues == <<"Failed to get valid values">>
Failed(e) == <<"Error in scraper function", e>>
CleanupError == <<"Error during cleanup">>

Stored(b) == {n \in BlobNames : b[n] # NoBlob}

\* C1: an invocation that opened the browser session has called cleanup
\* exactly once when it is done, whatever capture and store did; cleanup
\* is never called twice.
C1_GuaranteedRelease ==
    \A p \in Procs :
        /\ count[p].closes <= 1
        /\ pc[p] = "done" /\ count[p].opens >= 1 => count[p].closes = 1

\* C1's case: a session was opened, the capture failed, the session was
\* closed once.
C1_Witness ==
    \E p \in Procs :
        /\ pc[p] = "done"
        /\ count[p].opens = 1
        /\ status[p] = NoValues
        /\ count[p].closes = 1

\* C2: save_to_blob is called only after a capture attempt of the same
\* invocation that obtained all four fields; an invocation with a failed
\* locate or parse calls save_to_blob never.
C2_StoreOnlyCompleteCapture ==
    \A p \in Procs :
        /\ count[p].stores >= 1 =>
              count[p].attempts >= 1 /\ count[p].failures = 0
        /\ count[p].failures >= 1 => count[p].writes = 0
        /\ pc[p] = "save" => all_not_none(vals[p]) /\ count[p].failures = 0

\* C2's case: one invocation has written its capture, another one's
\* capture failed and it is done without a store.
C2_Witness ==
    \E p, q \in Procs :
        /\ count[p].writes = 1
        /\ Stored(blobs) # {}
        /\ pc[q] = "done"
        /\ count[q].failures = 1
        /\ count[q].stores = 0

\* C3: an invocation whose capture attempts all failed has made exactly
\* GcvRetries (3) attempts when the failure is reported to scraper_trigger.
C3_ThreeAttemptsOnFailure ==
    \A p \in Procs :
        count[p].failures >= 1 /\ pc[p] \in {"except", "finally", "done"} =>
            count[p].attempts = GcvRetries

\* C4: with retries = 3 and an operation raising on its first k <= 2
\* calls, the wrapper calls it k + 1 times and no more, and returns the
\* value of call k + 1.
C4_RetrySuccess ==
    wr.pc # "idle" /\ wr.retries = GcvRetries /\ wr.fails <= GcvRetries - 1 =>
        /\ wr.calls <= wr.fails + 1
        /\ wr.pc # "raised"
        /\ wr.pc = "returned" =>
              wr.calls = wr.fails + 1 /\ wr.out = <<"value", wr.fails + 1>>

\* C4's case: two failures, then the third call's value.
C4_Witness ==
    /\ wr.retries = GcvRetries
    /\ wr.fails = 2
    /\ wr.pc = "returned"
    /\ wr.calls = 3

\* C5: with retries = 3 and an operation raising on every call, the
\* wrapper calls it 3 times and raises the third call's exception.
C5_RetryExhaustion ==
    wr.pc # "idle" /\ wr.retries = GcvRetries /\ wr.fails >= GcvRetries =>
        /\ wr.calls <= GcvRetries
        /\ wr.pc # "returned"
        /\ wr.pc = "raised" =>
              wr.calls = GcvRetries /\ wr.out = <<"Error", GcvRetries>>

\* C5's case: the wrapper has given up.
C5_Witness ==
    /\ wr.retries = GcvRetries
    /\ wr.fails >= GcvRetries
    /\ wr.pc = "raised"

\* C6: without AzureWebJobsStorage an invocation launches no browser, makes
\* no capture attempt, sends nothing to storage and calls no cleanup; it
\* goes from __init__ through except and finally to the COMPLETED log.
C6_NoCredential ==
    ~connStr =>
        \A p \in Procs :
            /\ count[p] = ZeroCount
            /\ ~storageUsed[p]
            /\ driver[p] = "none"
            /\ pc[p] \in {"idle", "init", "except", "finally", "done"}

\* C6's case: the invocation is done, with the ValueError logged.
C6_Witness ==
    /\ ~connStr
    /\ \E p \in Procs : pc[p] = "done" /\ status[p] = Failed(ValueError)

\* C7: when setup_driver raises, the invocation makes no capture attempt,
\* writes no object, calls no cleanup, and is done with the error logged.
C7_SessionOpenFails ==
    \A p \in Procs :
        count[p].driverErrors >= 1 =>
            /\ count[p].attempts = 0
            /\ count[p].stores = 0
            /\ count[p].closes = 0
            /\ pc[p] \in {"except", "finally", "done"}
            /\ pc[p] # "except" => status[p] = Failed(<<"WebDriverException">>)

\* C7's case: the launch failed and the invocation is done.
C7_Witness ==
    \E p \in Procs :
        /\ pc[p] = "done"
        /\ count[p].driverErrors = 1
        /\ count[p].launches = 1
        /\ count[p].closes = 0

\* C8: no exception leaves scraper_trigger, and every invocation that has
\* started reaches the COMPLETED log.
C8_AlwaysCompletes ==
    \A p \in Procs :
        /\ [](pc[p] # "escaped")
        /\ (pc[p] = "init") ~> (pc[p] = "done")

\* C8's case: store and close both failed, and the invocation is done.
C8_Witness ==
    \E p \in Procs :
        /\ pc[p] = "done"
        /\ status[p] = Failed(<<"HttpResponseError">>)
        /\ count[p].stores = 1
        /\ cleanupLog[p] = CleanupError

\* C9: the step in which driver.quit() raises takes the invocation to the
\* COMPLETED log and changes neither its logged outcome nor the stored
\* objects.
C9_CloseFailureAbsorbed ==
    [][\A p \in Procs :
          pc[p] = "finally" /\ pc'[p] # "finally"
             /\ cleanupLog'[p] = CleanupError =>
              /\ pc'[p] = "done"
              /\ status'[p] = status[p]
              /\ blobs' = blobs]_vars

\* C9's case: the object was written, then close failed.
C9_Witness ==
    \E p \in Procs :
        /\ pc[p] = "done"
        /\ status[p] = Saved
        /\ cleanupLog[p] = CleanupError
        /\ Stored(blobs) # {}

\* C10: no step changes or removes a stored object; an invocation calls
\* save_to_blob at most once and writes at most one object; a successful
\* save_to_blob adds exactly one object.
C10_AppendOnly ==
    [][/\ \A n \in Stored(blobs) : blobs'[n] = blobs[n]
       /\ \A p \in Procs :
             /\ count'[p].stores <= 1
             /\ count'[p].writes <= 1
             /\ pc[p] = "save" /\ pc'[p] = "finally" =>
                   Cardinality(Stored(blobs')) = Cardinality(Stored(blobs)) + 1
             /\ pc[p] = "save" /\ pc'[p] = "except" => blobs' = blobs]_vars

\* C10's case: one invocation has written an object, and another one's
\* write under the same name was refused.
C10_Witness ==
    \E p, q \in Procs :
        /\ status[p] = Saved
        /\ status[q] = Failed(<<"ResourceExistsError">>)
        /\ count[q].stores = 1
        /\ count[q].writes = 0

\* C11: a save_to_blob whose name is already taken leaves the stored
\* objects as they are and raises ResourceExistsError, which the
\* invocation logs as its error.
C11_CollisionDetected ==
    [][\A p \in Procs :
          /\ pc[p] = "save" /\ pc'[p] # "save"
                /\ blobs[blob_name(clock)] # NoBlob =>
                /\ blobs' = blobs
                /\ pc'[p] = "except"
                /\ exc'[p] = <<"ResourceExistsError">>
          /\ pc[p] = "except" /\ pc'[p] # "except" =>
                status'[p] = Failed(exc[p])]_vars

\* C11's case: two invocations captured different seconds and stored in
\* the same one; the first object is there, the second invocation is done
\* with the collision logged.
C11_Witness ==
    \E p, q \in Procs :
        /\ p # q
        /\ pc[p] = "done" /\ status[p] = Saved
        /\ pc[q] = "done" /\ status[q] = Failed(<<"ResourceExistsError">>)
        /\ count[q].stores = 1
        /\ Cardinality(Stored(blobs)) = 1

\* C12: an invocation that finds the container existing when it checks for
\* it neither calls create_container nor fails over the container: it goes
\* on to launch the browser.
C12_EnsureExistingContainer ==
    \A p \in Procs :
        count[p].checksOfExisting >= 1 =>
            /\ count[p].creates = 0
            /\ exc[p] # <<"ResourceExistsError">>

\* C16: an invocation that found the container absent and whose
\* create_container is answered "already exists" (an overlapping
\* invocation created it in between) does not fail: no
\* ResourceExistsError of create_container reaches scraper_trigger.
C16_AlreadyExistsTolerated ==
    \A p \in Procs :
        /\ count[p].checks >= 1
        /\ count[p].checksOfExisting = 0
        /\ count[p].stores = 0
        => exc[p] # <<"ResourceExistsError">>

\* C13: with the page showing 3.42x, Playing 18 and Online 203, every
\* stored object is the header timestamp,multiplier,online,playing and one
\* row <timestamp>,3.42,203,18, the timestamp being the capture's and not
\* later than the second in the object's name; what an invocation is about
\* to store are the values parsed from the three locators, in the order of
\* get_current_values' return (multiplier, online, playing, timestamp).
C13_FieldMapping ==
    /\ \A t \in 0..MaxClock :
          blobs[blob_name(t)] # NoBlob =>
              \E c \in 0..t :
                  blobs[blob_name(t)] =
                      << <<"timestamp", "multiplier", "online", "playing">>,
                         << <<"iso", c>>, 342, 203, 18 >> >>
    /\ \A p \in Procs :
          pc[p] = "save" =>
              \E c \in 0..clock :
                  vals[p] = <<Some(342), Some(203), Some(18), Some(c)>>

\* C13's case: an object captured in second 0 and stored in second 1.
C13_Witness ==
    blobs[blob_name(1)] =
        << <<"timestamp", "multiplier", "online", "playing">>,
           << <<"iso", 0>>, 342, 203, 18 >> >>

\* C14: within an invocation the session is opened before any capture,
\* capture attempts are made with the session open and before any store and
\* close, save_to_blob is called with the session open, after a capture
\* that obtained all four values and before close, and close takes the
\* invocation to the COMPLETED log.
C14_PhaseOrder ==
    [][\A p \in Procs :
          /\ count'[p].opens > count[p].opens =>
                /\ pc[p] = "setup_driver"
                /\ count[p].attempts = 0
                /\ count[p].stores = 0
                /\ count[p].closes = 0
          /\ count'[p].attempts > count[p].attempts =>
                /\ driver[p] = "open"
                /\ count[p].opens = 1
                /\ count[p].stores = 0
                /\ count[p].closes = 0
          /\ count'[p].stores > count[p].stores =>
                /\ driver[p] = "open"
                /\ count[p].attempts >= 1
                /\ count[p].failures = 0
                /\ all_not_none(vals[p])
                /\ count[p].closes = 0
          /\ count'[p].closes > count[p].closes =>
                /\ driver[p] = "open"
                /\ pc'[p] = "done"]_vars

\* C14's case: an invocation went through open, capture, store and close.
C14_Witness ==
    \E p \in Procs :
        /\ pc[p] = "done"
        /\ status[p] = Saved
        /\ driver[p] = "quit"
        /\ count[p].opens = 1
        /\ count[p].attempts = 1
        /\ count[p].writes = 1
        /\ count[p].closes = 1

\* C15 as claimed: an invocation sends a request to storage only after a
\* capture of its own that succeeded.
C15_ContainerEnsuredInStore ==
    \A p \in Procs :
        storageUsed[p] => count[p].attempts >= 1 /\ count[p].failures = 0

\* C15 as the code has it: the container is checked, and created if the
\* check fails, while the scraper is constructed, before the browser is
\* launched. An invocation whose session cannot be opened or whose capture
\* fails has made that check and has called save_to_blob never; a failure
\* of create_container occurs with no session open and no close follows.
C15_ContainerEnsuredAtConstruction ==
    \A p \in Procs :
        /\ pc[p] \in {"check_container", "create_container"} =>
              /\ driver[p] = "none"
              /\ count[p].launches + count[p].driverErrors = 0
              /\ count[p].attempts = 0
        /\ count[p].launches + count[p].driverErrors >= 1 =>
              count[p].checks = 1
        /\ count[p].driverErrors >= 1 \/ count[p].failures >= 1 =>
              storageUsed[p] /\ count[p].stores = 0
        /\ /\ count[p].creates >= 1
           /\ count[p].launches + count[p].driverErrors = 0
           /\ pc[p] \in {"except", "finally", "done"}
           => /\ driver[p] = "none"
              /\ count[p].opens = 0
              /\ count[p].closes = 0

\* C15's case: create_container failed, and the invocation is done without
\* a session and without a close.
C15_Witness ==
    \E p \in Procs :
        /\ pc[p] = "done"
        /\ count[p].creates = 1
        /\ status[p] = Failed(<<"HttpResponseError">>)
        /\ count[p].opens = 0
        /\ count[p].closes = 0

\* C18: for retries >= 1 the wrapper sleeps only between two calls: when
\* it is about to call again it has slept once per call made; when it has
\* returned or raised it has slept once less than it called, its last act
\* being a call; it sleeps retries - 1 times at most, delay seconds each.
C18_DelayOnlyBetweenAttempts ==
    wr.pc # "idle" /\ wr.retries >= 1 =>
        /\ wr.sleeps <= wr.retries - 1
        /\ wr.slept = wr.sleeps * wr.delay
        /\ wr.pc = "loop" => wr.sleeps = wr.calls /\ wr.last # "call"
        /\ wr.pc = "sleep" => wr.sleeps = wr.calls - 1 /\ wr.calls < wr.retries
        /\ wr.pc \in {"returned", "raised"} =>
              wr.sleeps = wr.calls - 1 /\ wr.last = "call"

\* C18's case: four attempts, three sleeps of two seconds, then the raise.
C18_Witness ==
    /\ wr.retries = 4
    /\ wr.delay = 2
    /\ wr.pc = "raised"
    /\ wr.calls = 4
    /\ wr.sleeps = 3
    /\ wr.slept = 6

\* C17: an attempt navigates exactly when the session's URL differs from
\* the target URL, and waits for the page to settle only after such a
\* navigation; an attempt that starts on the target URL leaves the URL, the
\* navigations and the settle delays as they are.
C17_NavigateIfNeeded ==
    [][cap'.attempts > cap.attempts =>
          /\ cap'.navs > cap.navs <=> cap.url # TargetUrl
          /\ cap'.settles > cap.settles =>
                cap.url # TargetUrl /\ cap'.navs > cap.navs
          /\ cap.url = TargetUrl =>
                /\ cap'.url = TargetUrl
                /\ cap'.navs = cap.navs
                /\ cap'.settles = cap.settles]_vars

\* C17's case: the first attempt navigated, the second one started on the
\* target URL and captured without navigating.
C17_Witness ==
    /\ cap.attempts = 2
    /\ cap.navs = 1
    /\ cap.settles = 1
    /\ ~cap.failed

\* The text has an x somewhere other than at the end of the stripped text.
HasStrayX(s) ==
    LET t == Strip(s) IN \E n \in 1..(Len(t) - 1) : t[n] = "x"

\* C19: the multiplier is parsed by taking off only the trailing x and the
\* surrounding whitespace: "12.5x" gives 12.5 and "  7x " gives 7.0 (in
\* hundredths), and a text with an x anywhere else is a parse failure.
C19_TrailingMarkerOnly ==
    cap.attempts > 0 /\ cap.mt # Timeout =>
        /\ HasStrayX(cap.mt) => cap.failed
        /\ ~cap.failed /\ cap.mt = <<"1", "2", ".", "5", "x">> =>
              cap.res.val[1] = Some(1250)
        /\ ~cap.failed /\ cap.mt = <<" ", " ", "7", "x", " ">> =>
              cap.res.val[1] = Some(700)

====
